---- MODULE Spec2Model ----
(***************************************************************************)
(* One run of PDFIntelligentProcessor.replace_text_in_pdf                  *)
(* (src/src/pdf_processor.py): text extraction, one completion call per    *)
(* page, reconstruction of a new document and its save.                    *)
(*                                                                         *)
(* Strings are sequences of characters, a document is a sequence of page   *)
(* records, and a raised exception moves control to the handler of the     *)
(* enclosing try statement (HandlerOf).                                    *)
(***************************************************************************)
EXTENDS Integers, Sequences, FiniteSets, TLC

VARIABLES
    inputFile,            \* the file at input_path on disk
    outFile,              \* the file at output_path on disk
    outBefore,            \* the file at output_path when the run started
    command,              \* the modification command of the run
    pc,                   \* position of the run in the code
    ex_doc,               \* extract_text_from_pdf: the opened document
    ex_texts,             \* extract_text_from_pdf: local list page_texts
    ex_status,            \* "none", "running", "ok" (line 51) or "failed" (line 54)
    page_texts,           \* replace_text_in_pdf: page_texts (line 94)
    modified_page_texts,  \* replace_text_in_pdf: modified_page_texts (line 101)
    failed,               \* per page: did its completion call take the except path
    callLog,              \* the requests sent to the completion service, in order
    resp,                 \* the response of the call in flight (line 68)
    doc,                  \* replace_text_in_pdf: the re-opened original (line 108)
    new_doc,              \* replace_text_in_pdf: the pages of new_doc (line 111)
    k,                    \* index of the current (page, modified_text) pair of zip
    j,                    \* index of the current image of page.get_images
    handles,              \* state of each document handle opened by the run
    save_calls,           \* number of calls of new_doc.save
    fileRewritten         \* has another program replaced the input file

vars == <<inputFile, outFile, outBefore, command, pc, ex_doc, ex_texts, ex_status,
          page_texts, modified_page_texts, failed, callLog, resp, doc, new_doc,
          k, j, handles, save_calls, fileRewritten>>

----------------------------------------------------------------------------
(* Bounds *)

MaxPages == 2

MaxLen == 2

----------------------------------------------------------------------------
(* Values *)

Chars == {"a", " "}

Whitespace == {" "}

\* all strings of at most n characters
Strs(n) == UNION {[1..m -> Chars] : m \in 0..n}

Commands == {<<"a">>, <<"a", "a">>}

BlankPage ==
    [text |-> <<>>, width |-> 612, height |-> 792, images |-> <<>>]

PhotoPage ==
    [text |-> <<" ", "a">>, width |-> 792, height |-> 612, images |-> <<5, 8>>]

PageKinds == {BlankPage, PhotoPage}

Docs == UNION {[1..n -> PageKinds] : n \in 0..MaxPages}

\* a path at which fitz.open raises (missing, corrupt, not a document)
Unreadable == [readable |-> FALSE, pages |-> <<>>]

PdfFile(pages) == [readable |-> TRUE, pages |-> pages]

Files == {Unreadable} \cup {PdfFile(d) : d \in Docs}

Absent == [kind |-> "absent", pages |-> <<>>]

OldFile == [kind |-> "old", pages |-> <<>>]

PartialFile == [kind |-> "partial", pages |-> <<>>]

SavedFile(pages) == [kind |-> "pdf", pages |-> pages]

NoResponse == [kind |-> "none", content |-> <<>>]

\* message.content is None
NullContent == [kind |-> "null", content |-> <<>>]

Content(s) == [kind |-> "content", content |-> s]

Responses == {NullContent} \cup {Content(s) : s \in Strs(MaxLen)}

HandleNames == {"extract_doc", "doc", "new_doc"}

Min(a, b) == IF a < b THEN a ELSE b

----------------------------------------------------------------------------
(* Library functions *)

RECURSIVE LStrip(_)
LStrip(s) == IF s # <<>> /\ Head(s) \in Whitespace THEN LStrip(Tail(s)) ELSE s

RECURSIVE RStrip(_)
RStrip(s) ==
    IF s # <<>> /\ s[Len(s)] \in Whitespace
    THEN RStrip(SubSeq(s, 1, Len(s) - 1))
    ELSE s

StripLeftOnly(s) == LStrip(s)

\* str.strip() of line 75
Strip(s) == RStrip(LStrip(s))

\* the user message of line 72
UserMessage(cmd, text) ==
    <<"Command: ">> \o cmd \o <<"\n\nOriginal Text:\n">> \o text

\* page.get_text() of line 47
GetText(page) == page.text

\* number of pairs zip(doc, modified_page_texts) yields (line 113)
ZipLen(d, texts) == Min(Len(d), Len(texts))

----------------------------------------------------------------------------
(* Exception handling *)

HandlerNoTry(region) ==
    CASE region = "extract" -> "ex_except"
      [] region = "gpt"     -> "gpt_except"
      [] OTHER              -> "raised"

\* the except clause an exception raised in a region of the code reaches
HandlerOf(region) ==
    CASE region = "extract" -> "ex_except"
      [] region = "gpt"     -> "gpt_except"
      [] region = "rebuild" -> "rb_except"
      [] OTHER              -> "raised"

----------------------------------------------------------------------------
Init ==
    /\ inputFile \in Files
    /\ outBefore \in {Absent, OldFile}
    /\ outFile = outBefore
    /\ command \in Commands
    /\ pc = "start"
    /\ ex_doc = <<>>
    /\ ex_texts = <<>>
    /\ ex_status = "none"
    /\ page_texts = <<>>
    /\ modified_page_texts = <<>>
    /\ failed = <<>>
    /\ callLog = <<>>
    /\ resp = NoResponse
    /\ doc = <<>>
    /\ new_doc = <<>>
    /\ k = 0
    /\ j = 0
    /\ handles = [h \in HandleNames |-> "unopened"]
    /\ save_calls = 0
    /\ fileRewritten = FALSE

----------------------------------------------------------------------------
(* extract_text_from_pdf, called at line 94 *)

\* line 42: fitz.open(pdf_path); line 43
ExtractOpen ==
    /\ pc = "start"
    /\ ex_status' = "running"
    /\ IF inputFile.readable
       THEN /\ ex_doc' = inputFile.pages
            /\ handles' = [handles EXCEPT !["extract_doc"] = "open"]
            /\ pc' = "ex_loop"
       ELSE /\ pc' = HandlerOf("extract")
            /\ UNCHANGED <<ex_doc, handles>>
    /\ UNCHANGED <<inputFile, outFile, outBefore, command, ex_texts, page_texts,
                   modified_page_texts, failed, callLog, resp, doc, new_doc,
                   k, j, save_calls, fileRewritten>>

AppendFront(texts, t) == <<t>> \o texts

\* line 48: page_texts.append(page_text)
AppendText(texts, t) == Append(texts, t)

\* lines 45-48: one iteration of the loop; get_text returns or raises
ExtractPage ==
    /\ pc = "ex_loop"
    /\ Len(ex_texts) < Len(ex_doc)
    /\ \/ /\ ex_texts' = AppendText(ex_texts, GetText(ex_doc[Len(ex_texts) + 1]))
          /\ pc' = "ex_loop"
       \/ /\ pc' = HandlerOf("extract")
          /\ UNCHANGED ex_texts
    /\ UNCHANGED <<inputFile, outFile, outBefore, command, ex_doc, ex_status,
                   page_texts, modified_page_texts, failed, callLog, resp, doc,
                   new_doc, k, j, handles, save_calls, fileRewritten>>

\* lines 50-51: doc.close(); return page_texts
ExtractReturn ==
    /\ pc = "ex_loop"
    /\ Len(ex_texts) = Len(ex_doc)
    /\ handles' = [handles EXCEPT !["extract_doc"] = "closed"]
    /\ page_texts' = ex_texts
    /\ ex_status' = "ok"
    /\ pc' = "check"
    /\ UNCHANGED <<inputFile, outFile, outBefore, command, ex_doc, ex_texts,
                   modified_page_texts, failed, callLog, resp, doc, new_doc,
                   k, j, save_calls, fileRewritten>>

ExtractExceptPartial ==
    /\ pc = "ex_except"
    /\ page_texts' = ex_texts
    /\ ex_status' = "failed"
    /\ pc' = "check"
    /\ UNCHANGED <<inputFile, outFile, outBefore, command, ex_doc, ex_texts,
                   modified_page_texts, failed, callLog, resp, doc, new_doc,
                   k, j, handles, save_calls, fileRewritten>>

\* lines 52-54: print; return []
ExtractExcept ==
    /\ pc = "ex_except"
    /\ page_texts' = <<>>
    /\ ex_status' = "failed"
    /\ pc' = "check"
    /\ UNCHANGED <<inputFile, outFile, outBefore, command, ex_doc, ex_texts,
                   modified_page_texts, failed, callLog, resp, doc, new_doc,
                   k, j, handles, save_calls, fileRewritten>>

----------------------------------------------------------------------------
(* replace_text_in_pdf, lines 96-104 *)

\* the text of the page the loop of line 102 is at
CurrentText == page_texts[Len(modified_page_texts) + 1]

\* where the loop of line 102 goes once n texts are appended
AfterAppend(n) == IF n < Len(page_texts) THEN "gpt_call" ELSE "reopen"

IsEmptyNever(texts) == FALSE

\* line 96: not page_texts
IsEmpty(texts) == texts = <<>>

\* lines 96-98 and 101
CheckExtracted ==
    /\ pc = "check"
    /\ pc' = IF IsEmpty(page_texts) THEN "done" ELSE AfterAppend(0)
    /\ UNCHANGED <<inputFile, outFile, outBefore, command, ex_doc, ex_texts,
                   ex_status, page_texts, modified_page_texts, failed, callLog,
                   resp, doc, new_doc, k, j, handles, save_calls, fileRewritten>>

\* lines 102-103 and 68-74: the request is sent; the service answers or the call raises
GptCall ==
    /\ pc = "gpt_call"
    /\ Len(modified_page_texts) < Len(page_texts)
    /\ callLog' = Append(callLog, UserMessage(command, CurrentText))
    /\ \/ \E r \in Responses : resp' = r /\ pc' = "gpt_strip"
       \/ resp' = NoResponse /\ pc' = HandlerOf("gpt")
    /\ UNCHANGED <<inputFile, outFile, outBefore, command, ex_doc, ex_texts,
                   ex_status, page_texts, modified_page_texts, failed, doc,
                   new_doc, k, j, handles, save_calls, fileRewritten>>

\* line 75, then line 104
GptStrip ==
    /\ pc = "gpt_strip"
    /\ IF resp.kind = "content"
       THEN /\ modified_page_texts' = Append(modified_page_texts, Strip(resp.content))
            /\ failed' = Append(failed, FALSE)
            /\ pc' = AfterAppend(Len(modified_page_texts) + 1)
       ELSE /\ pc' = HandlerOf("gpt")
            /\ UNCHANGED <<modified_page_texts, failed>>
    /\ resp' = NoResponse
    /\ UNCHANGED <<inputFile, outFile, outBefore, command, ex_doc, ex_texts,
                   ex_status, page_texts, callLog, doc, new_doc, k, j, handles,
                   save_calls, fileRewritten>>

FallbackStripped(text) == Strip(text)

\* line 78: return text
Fallback(text) == text

GptExceptRetry ==
    /\ pc = "gpt_except"
    /\ pc' = "gpt_call"
    /\ UNCHANGED <<inputFile, outFile, outBefore, command, ex_doc, ex_texts,
                   ex_status, page_texts, modified_page_texts, failed, callLog,
                   resp, doc, new_doc, k, j, handles, save_calls, fileRewritten>>

\* lines 76-78, then line 104
GptExcept ==
    /\ pc = "gpt_except"
    /\ modified_page_texts' = Append(modified_page_texts, Fallback(CurrentText))
    /\ failed' = Append(failed, TRUE)
    /\ pc' = AfterAppend(Len(modified_page_texts) + 1)
    /\ UNCHANGED <<inputFile, outFile, outBefore, command, ex_doc, ex_texts,
                   ex_status, page_texts, callLog, resp, doc, new_doc, k, j,
                   handles, save_calls, fileRewritten>>

----------------------------------------------------------------------------
(* replace_text_in_pdf, lines 107-139 *)

\* another program replaces the file at input_path between the two opens of the
\* run (lines 42 and 108); line 108 is the only place that can observe it
ExternalWrite ==
    /\ pc = "reopen"
    /\ ~fileRewritten
    /\ \E f \in Files \ {inputFile} : inputFile' = f
    /\ fileRewritten' = TRUE
    /\ UNCHANGED <<outFile, outBefore, command, pc, ex_doc, ex_texts, ex_status,
                   page_texts, modified_page_texts, failed, callLog, resp, doc,
                   new_doc, k, j, handles, save_calls>>

\* lines 108 and 111: fitz.open(input_path); fitz.open()
Reopen ==
    /\ pc = "reopen"
    /\ IF inputFile.readable
       THEN /\ doc' = inputFile.pages
            /\ handles' = [handles EXCEPT !["doc"] = "open", !["new_doc"] = "open"]
            /\ k' = 1
            /\ pc' = "build"
       ELSE /\ pc' = HandlerOf("rebuild")
            /\ UNCHANGED <<doc, handles, k>>
    /\ UNCHANGED <<inputFile, outFile, outBefore, command, ex_doc, ex_texts,
                   ex_status, page_texts, modified_page_texts, failed, callLog,
                   resp, new_doc, j, save_calls, fileRewritten>>

NewPageSquare(page) ==
    [width |-> page.width, height |-> page.width, has_text |-> FALSE,
     text |-> <<>>, images |-> <<>>]

\* line 115: new_doc.new_page(width=page.rect.width, height=page.rect.height)
NewPageOf(page) ==
    [width |-> page.width, height |-> page.height, has_text |-> FALSE,
     text |-> <<>>, images |-> <<>>]

\* where the loop of line 113 goes once image n of pair p is copied
AfterImage(p, n) ==
    IF n < Len(doc[p].images) THEN "images" ELSE "build"

\* lines 113-115: the next pair of zip; new_page returns or raises
NewPage ==
    /\ pc = "build"
    /\ k <= ZipLen(doc, modified_page_texts)
    /\ \/ /\ new_doc' = Append(new_doc, NewPageOf(doc[k]))
          /\ pc' = "text"
       \/ /\ pc' = HandlerOf("rebuild")
          /\ UNCHANGED new_doc
    /\ UNCHANGED <<inputFile, outFile, outBefore, command, ex_doc, ex_texts,
                   ex_status, page_texts, modified_page_texts, failed, callLog,
                   resp, doc, k, j, handles, save_calls, fileRewritten>>

\* line 118: new_page.insert_text((50, 50), modified_text, fontsize=11)
InsertText ==
    /\ pc = "text"
    /\ \/ /\ new_doc' = [new_doc EXCEPT ![k].has_text = TRUE,
                                        ![k].text = modified_page_texts[k]]
          /\ pc' = AfterImage(k, 0)
          /\ j' = IF AfterImage(k, 0) = "images" THEN 1 ELSE 0
          /\ k' = IF AfterImage(k, 0) = "images" THEN k ELSE k + 1
       \/ /\ pc' = HandlerOf("rebuild")
          /\ UNCHANGED <<new_doc, j, k>>
    /\ UNCHANGED <<inputFile, outFile, outBefore, command, ex_doc, ex_texts,
                   ex_status, page_texts, modified_page_texts, failed, callLog,
                   resp, doc, handles, save_calls, fileRewritten>>

\* lines 121-127: one image of the page; extract_image or insert_image may raise
CopyImage ==
    /\ pc = "images"
    /\ \/ /\ new_doc' = [new_doc EXCEPT ![k].images =
                            Append(@, [xref |-> doc[k].images[j],
                                       width |-> doc[k].width,
                                       height |-> doc[k].height])]
          /\ pc' = AfterImage(k, j)
          /\ j' = IF AfterImage(k, j) = "images" THEN j + 1 ELSE 0
          /\ k' = IF AfterImage(k, j) = "images" THEN k ELSE k + 1
       \/ /\ pc' = HandlerOf("rebuild")
          /\ UNCHANGED <<new_doc, j, k>>
    /\ UNCHANGED <<inputFile, outFile, outBefore, command, ex_doc, ex_texts,
                   ex_status, page_texts, modified_page_texts, failed, callLog,
                   resp, doc, handles, save_calls, fileRewritten>>

SaveReadyEarly == k > 1

\* line 130 is reached when the loop of line 113 has no pair left
SaveReady == k > ZipLen(doc, modified_page_texts)

\* line 130: new_doc.save(output_path); a document without pages cannot be saved,
\* and a save that raises may leave a partly written file
Save ==
    /\ pc = "build"
    /\ SaveReady
    /\ save_calls' = save_calls + 1
    /\ \/ /\ Len(new_doc) > 0
          /\ outFile' = SavedFile(new_doc)
          /\ pc' = "close"
       \/ /\ outFile' \in {outFile, PartialFile}
          /\ pc' = HandlerOf("rebuild")
    /\ UNCHANGED <<inputFile, outBefore, command, ex_doc, ex_texts, ex_status,
                   page_texts, modified_page_texts, failed, callLog, resp, doc,
                   new_doc, k, j, handles, fileRewritten>>

\* lines 133-136: doc.close(); new_doc.close(); print
CloseDocs ==
    /\ pc = "close"
    /\ handles' = [handles EXCEPT !["doc"] = "closed", !["new_doc"] = "closed"]
    /\ pc' = "done"
    /\ UNCHANGED <<inputFile, outFile, outBefore, command, ex_doc, ex_texts,
                   ex_status, page_texts, modified_page_texts, failed, callLog,
                   resp, doc, new_doc, k, j, save_calls, fileRewritten>>

\* lines 138-139: print
ReplaceExcept ==
    /\ pc = "rb_except"
    /\ pc' = "done"
    /\ UNCHANGED <<inputFile, outFile, outBefore, command, ex_doc, ex_texts,
                   ex_status, page_texts, modified_page_texts, failed, callLog,
                   resp, doc, new_doc, k, j, handles, save_calls, fileRewritten>>

----------------------------------------------------------------------------
Next ==
    \/ ExtractOpen
    \/ ExtractPage
    \/ ExtractReturn
    \/ ExtractExcept
    \/ CheckExtracted
    \/ GptCall
    \/ GptStrip
    \/ GptExcept
    \/ ExternalWrite
    \/ Reopen
    \/ NewPage
    \/ InsertText
    \/ CopyImage
    \/ Save
    \/ CloseDocs
    \/ ReplaceExcept

Spec == Init /\ [][Next]_vars

----------------------------------------------------------------------------
(* Properties *)

Range(f) == {f[x] : x \in DOMAIN f}

ExtractionPcs == {"start", "ex_loop", "ex_except"}

RebuildPcs == {"reopen", "build", "text", "images", "close", "rb_except"}

\* r is s without its leading and trailing whitespace
IsStripOf(r, s) ==
    /\ r = <<>> \/ (r[1] \notin Whitespace /\ r[Len(r)] \notin Whitespace)
    /\ \E a, b \in 0..Len(s) :
          /\ a + b <= Len(s)
          /\ r = SubSeq(s, a + 1, Len(s) - b)
          /\ \A x \in 1..a : s[x] \in Whitespace
          /\ \A x \in (Len(s) - b + 1)..Len(s) : s[x] \in Whitespace

\* C1: process_command_with_gpt returns the response's content without its
\* leading and trailing whitespace when the call and the handling of its response
\* succeed, returns exactly the input text when either raises, and lets no
\* exception reach its caller.
C1_RewriterResult ==
    [][ /\ (pc = "gpt_strip" /\ resp.kind = "content") =>
              /\ Len(modified_page_texts') = Len(modified_page_texts) + 1
              /\ IsStripOf(modified_page_texts'[Len(modified_page_texts')], resp.content)
        /\ (pc = "gpt_strip" /\ resp.kind # "content") => pc' = "gpt_except"
        /\ pc = "gpt_call" => pc' \in {"gpt_strip", "gpt_except"}
        /\ pc = "gpt_except" =>
              /\ modified_page_texts' =
                    Append(modified_page_texts, page_texts[Len(modified_page_texts) + 1])
              /\ pc' \in {"gpt_call", "reopen"}
      ]_vars

\* a failed call returned a text with leading whitespace unchanged, and a call
\* that succeeded returned a stripped text
C1_Witness ==
    /\ Len(failed) = 2
    /\ failed[1] /\ ~failed[2]
    /\ modified_page_texts[1] = <<" ", "a">>
    /\ modified_page_texts[2] = <<"a">>

\* C2: when extraction succeeds on a document of N pages it returns N strings,
\* the i-th being the text of the i-th page (empty strings included).
C2_ExtractAllPagesInOrder ==
    ex_status = "ok" =>
        /\ Len(page_texts) = Len(ex_doc)
        /\ \A i \in 1..Len(ex_doc) : page_texts[i] = ex_doc[i].text

C2_Witness ==
    /\ ex_status = "ok"
    /\ Len(page_texts) = 2
    /\ page_texts[1] = <<>>
    /\ page_texts[2] # <<>>

\* C3: when opening the document or reading a page fails, extraction returns the
\* empty list, never the pages read so far, and no exception escapes.
C3_ExtractFailureGivesEmpty ==
    /\ ex_status = "failed" => page_texts = <<>>
    /\ ex_status # "none" => pc # "raised"

\* a page was read before the failure
C3_Witness ==
    /\ ex_status = "failed"
    /\ ex_texts # <<>>
    /\ pc = "done"

\* C4: a saved output has min(pages of the re-opened original, rewritten texts)
\* pages, and its i-th page has the width and height of the i-th original page.
C4_SavedPageCountAndSizes ==
    outFile.kind = "pdf" =>
        /\ Len(outFile.pages) =
              (IF Len(doc) < Len(modified_page_texts)
               THEN Len(doc) ELSE Len(modified_page_texts))
        /\ \A i \in 1..Len(outFile.pages) :
              /\ outFile.pages[i].width = doc[i].width
              /\ outFile.pages[i].height = doc[i].height

\* the re-opened original has fewer pages than there are rewritten texts
C4_Witness ==
    /\ outFile.kind = "pdf"
    /\ Len(doc) < Len(modified_page_texts)
    /\ doc[1].width # doc[1].height

\* C5: when extraction yields the empty list the run ends at once: no request is
\* sent, no document is opened for reconstruction, nothing is saved, the output
\* path is untouched and no exception is raised.
C5_EmptyExtractionAborts ==
    (ex_status \in {"ok", "failed"} /\ page_texts = <<>>) =>
        /\ pc \in {"check", "done"}
        /\ callLog = <<>>
        /\ modified_page_texts = <<>>
        /\ handles["doc"] = "unopened"
        /\ handles["new_doc"] = "unopened"
        /\ save_calls = 0
        /\ outFile = outBefore

C5_Witness ==
    /\ pc = "done"
    /\ ex_status = "failed"
    /\ page_texts = <<>>
    /\ outBefore = OldFile

\* C6: a failed rewrite call does not end the run: every page is processed, the
\* run goes on to reconstruction, a page whose call failed keeps its extracted
\* text, and each saved page carries the text its own call produced.
C6_RewriteFailureContinues ==
    /\ \A i \in 1..Len(failed) : failed[i] => modified_page_texts[i] = page_texts[i]
    /\ Len(failed) = Len(modified_page_texts)
    /\ (pc \in RebuildPcs \cup {"done"} /\ page_texts # <<>>) =>
          Len(modified_page_texts) = Len(page_texts)
    /\ pc = "gpt_except" => Len(modified_page_texts) < Len(page_texts)
    /\ outFile.kind = "pdf" =>
          \A i \in 1..Len(outFile.pages) :
              /\ outFile.pages[i].has_text
              /\ outFile.pages[i].text = modified_page_texts[i]

\* the first page's call failed, the second's succeeded, and the output is saved
C6_Witness ==
    /\ outFile.kind = "pdf"
    /\ Len(outFile.pages) = 2
    /\ failed[1] /\ ~failed[2]
    /\ outFile.pages[1].text = <<" ", "a">>
    /\ page_texts[1] = <<" ", "a">>

\* C7: replace_text_in_pdf never lets an exception reach its caller, whatever
\* fails in extraction, in the rewrite calls or in reconstruction.
C7_NoExceptionEscapes == pc # "raised"

\* a rewrite call failed and reconstruction failed after pages were built
C7_Witness ==
    /\ pc = "done"
    /\ TRUE \in Range(failed)
    /\ handles["new_doc"] = "open"
    /\ save_calls = 1
    /\ outFile.kind # "pdf"

\* C8 as stated: the text of page N+1 is not extracted before the model call of
\* page N has returned.
C8_ExtractionInterleaved ==
    \A n \in 1..MaxPages : Len(ex_texts) >= n + 1 => Len(modified_page_texts) >= n

\* C8 amended: the whole document is extracted before the first model call; then
\* the calls are made one at a time in page order, call N returning before call
\* N+1 is sent, one call per extracted page and no retry.
C8_ExtractThenSequentialCalls ==
    /\ callLog # <<>> => ex_status = "ok"
    /\ Len(callLog) <= Len(page_texts)
    /\ \A i \in 1..Len(callLog) : callLog[i] = UserMessage(command, page_texts[i])
    /\ Len(callLog) - Len(modified_page_texts) =
          (IF pc \in {"gpt_strip", "gpt_except"} THEN 1 ELSE 0)
    /\ (pc \in RebuildPcs \cup {"done"}) => Len(callLog) = Len(page_texts)

\* two pages were rewritten, the first after a failed call
C8_Witness ==
    /\ Len(callLog) = 2
    /\ Len(modified_page_texts) = 2
    /\ failed[1]
    /\ pc = "reopen"

\* C9: every document handle a call opened is closed when the call returns.
C9_HandlesClosedOnReturn ==
    /\ pc \notin ExtractionPcs => handles["extract_doc"] # "open"
    /\ pc = "done" => \A h \in HandleNames : handles[h] # "open"

\* C10: the output is saved at most once and only when every pair has its page,
\* its text and all its images; if a step before the save raises, the output path
\* is as it was before the run.
C10_SaveOnceAfterAllPages ==
    /\ save_calls <= 1
    /\ save_calls = 1 =>
          /\ Len(new_doc) =
                (IF Len(doc) < Len(modified_page_texts)
                 THEN Len(doc) ELSE Len(modified_page_texts))
          /\ \A i \in 1..Len(new_doc) :
                /\ new_doc[i].has_text
                /\ Len(new_doc[i].images) = Len(doc[i].images)
    /\ save_calls = 0 => outFile = outBefore

\* page construction failed after a page was created, over an existing output
C10_Witness ==
    /\ pc = "done"
    /\ save_calls = 0
    /\ Len(new_doc) >= 1
    /\ outBefore = OldFile

====
